---- MODULE Spec2Model ----
(***************************************************************************)
(* A model of mib2zarr.py: discovery of MIB files in a directory tree,     *)
(* the sidecar and auxiliary loaders, parameter resolution, the            *)
(* single-file conversion and the batch driver.                            *)
(*                                                                         *)
(* The filesystem is the only state the program shares between calls.  A   *)
(* path is a pair <<directory id, name>>; a name is a sequence of tokens   *)
(* (abstract characters), so that pathlib's stem/suffix split, the "*"     *)
(* test and glob matching are computed as the code computes them.          *)
(* Directory listings are enumerated in one fixed order (the order         *)
(* iterdir/glob give is not specified by the OS).  The rendering of the    *)
(* preview images and the metadata setters (title, experimental            *)
(* parameters, step sizes) change no state any operation reads and are     *)
(* reduced to their file writes.                                           *)
(***************************************************************************)
EXTENDS Integers, Sequences, FiniteSets, TLC

VARIABLES fs, sevenz, call, prev

vars == <<fs, sevenz, call, prev>>

(***************************************************************************)
(* Bounds                                                                  *)
(***************************************************************************)
MaxDepth == 2
MaxSkip == 2

(***************************************************************************)
(* Program constants                                                       *)
(***************************************************************************)
MB == 1000000
_MAX_AUX_FILESIZE == 5
_MIN_MIB_FILESIZE == 100
_SUPPORTED_FILES == {<<".", "dm3">>, <<".", "dm4">>, <<".", "png">>, <<".", "jpg">>, <<".", "mib">>}

(***************************************************************************)
(* Python values: every value is a record of a type tag and a sequence of  *)
(* integers (a float is <<integer part, tenths>>, a numeric string is the  *)
(* integer it spells).                                                     *)
(***************************************************************************)
PyNone == [t |-> "none", v |-> <<>>]
Missing == [t |-> "missing", v |-> <<>>]
PyInt(n) == [t |-> "int", v |-> <<n>>]
PyFloat(n, tenths) == [t |-> "float", v |-> <<n, tenths>>]
PyStr(n) == [t |-> "str", v |-> <<n>>]
PyList(s) == [t |-> "list", v |-> s]
PyTuple(s) == [t |-> "tuple", v |-> s]

EmptyDict == [navigation_shape |-> Missing, lineskip |-> Missing]

(***************************************************************************)
(* pathlib                                                                 *)
(***************************************************************************)
Top == -1
Container == -1

suffix(name) ==
  LET dots == {i \in 1..Len(name) : name[i] = "."}
      i == IF dots = {} THEN 0 ELSE CHOOSE j \in dots : \A k \in dots : k <= j
  IN  IF i > 1 /\ i < Len(name) THEN SubSeq(name, i, Len(name)) ELSE <<>>

stem(name) == SubSeq(name, 1, Len(name) - Len(suffix(name)))

with_name(path, name) == <<path[1], name>>

with_suffix(path, suf) == <<path[1], stem(path[2]) \o suf>>

with_stem(path, st) == <<path[1], st \o suffix(path[2])>>

exists(f, path) == path \in DOMAIN f

is_dir(f, path) == path \in DOMAIN f /\ f[path].kind = "dir"

is_file(f, path) == path \in DOMAIN f /\ f[path].kind = "file"

RECURSIVE SetToSeq(_)
SetToSeq(S) ==
  IF S = {} THEN <<>>
  ELSE LET x == CHOOSE y \in S : TRUE IN <<x>> \o SetToSeq(S \ {x})

\* the children of a directory; a container written by the saver holds
\* array chunks and metadata only, which the model does not enumerate
children(f, d) == SetToSeq({p \in DOMAIN f : p[1] = d})

iterdir(f, path) == IF f[path].sub = Container THEN <<>> ELSE children(f, f[path].sub)

RECURSIVE fnmatch(_, _)
fnmatch(pat, name) ==
  IF pat = <<>> THEN name = <<>>
  ELSE IF Head(pat) = "*"
       THEN fnmatch(Tail(pat), name) \/ (name # <<>> /\ fnmatch(pat, Tail(name)))
       ELSE /\ name # <<>>
            /\ (Head(pat) = "?" \/ Head(pat) = Head(name))
            /\ fnmatch(Tail(pat), Tail(name))

glob(f, dir, pat) == SetToSeq({p \in DOMAIN f : p[1] = dir /\ fnmatch(pat, p[2])})

unlink(f, path) == [p \in DOMAIN f \ {path} |-> f[p]]

\* Path.rmdir removes an empty directory only
rmdir_ok(f, path) ==
  /\ is_dir(f, path)
  /\ f[path].sub # Container
  /\ ~ \E p \in DOMAIN f : p[1] = f[path].sub

(***************************************************************************)
(* Filesystem entries                                                      *)
(***************************************************************************)
\* size in bytes; decode is what the decoder of the file's format does with
\* it ("ok", "fail", or "zerodim" for a signal without dimensions); json is
\* the mapping a sidecar holds; axis is the length of the first navigation
\* axis the raw decoder infers when no navigation shape is forced
FileEntry(size, decode, json, axis) ==
  [kind |-> "file", size |-> size, decode |-> decode, json |-> json, axis |-> axis,
   sub |-> Container]

DirEntry(id) ==
  [kind |-> "dir", size |-> 0, decode |-> "none", json |-> EmptyDict, axis |-> 0,
   sub |-> id]

MIB == <<".", "mib">>
JSON == <<".", "json">>
ZSPY == <<".", "zspy">>
DataDir == <<Top, <<"data">>>>

\* the directory chain data, data/sub, data/sub/sub, ...
DirChain(depth) ==
  [p \in {DataDir} \cup {<<d, <<"sub">>>> : d \in 0..(depth - 1)} |->
     IF p = DataDir THEN DirEntry(0) ELSE DirEntry(p[1] + 1)]

(***************************************************************************)
(* File Discovery                                                          *)
(***************************************************************************)
RECURSIVE get_mib_files(_, _, _)
RECURSIVE get_mib_files_walk(_, _)
get_mib_files_walk(f, ps) ==
  IF ps = <<>> THEN <<>>
  ELSE LET p == Head(ps)
           here == IF is_dir(f, p) THEN get_mib_files(f, p, _MIN_MIB_FILESIZE)
                   ELSE IF is_file(f, p)
                        THEN IF suffix(p[2]) = MIB /\ f[p].size >= _MIN_MIB_FILESIZE * MB
                             THEN <<p>> ELSE <<>>
                        ELSE <<>>
       IN  here \o get_mib_files_walk(f, Tail(ps))

get_mib_files(f, path, minimum_filesize) ==
  IF is_dir(f, path) THEN get_mib_files_walk(f, iterdir(f, path))
  ELSE IF suffix(path[2]) = MIB THEN <<path>> ELSE <<>>

(***************************************************************************)
(* Sidecar Metadata Loader.  The except clause names FileNotFoundError     *)
(* only, which a file that passed is_file() does not raise in a            *)
(* sequential run; any other failure of json.load propagates.              *)
(***************************************************************************)
IoOp(op, path) == [op |-> op, path |-> path, nav_shape |-> PyNone, chunks |-> PyNone]

get_metadata_from_json(f, path) ==
  IF is_file(f, path) /\ exists(f, path)
  THEN IF f[path].decode = "ok"
       THEN [exc |-> "", value |-> f[path].json, io |-> <<IoOp("json.load", path)>>]
       ELSE [exc |-> "JSONDecodeError", value |-> EmptyDict,
             io |-> <<IoOp("json.load", path)>>]
  ELSE [exc |-> "", value |-> EmptyDict, io |-> <<>>]

(***************************************************************************)
(* Auxiliary File Collector.  aux_data maps the sanitised name to the path *)
(* of the file the signal was loaded from.                                 *)
(***************************************************************************)
sanitise(name) == [i \in 1..Len(name) |-> IF name[i] = " " THEN "_" ELSE name[i]]

DictSet(d, k, x) == [j \in DOMAIN d \cup {k} |-> IF j = k THEN x ELSE d[j]]

RECURSIVE load_aux_walk(_, _, _, _, _, _)
load_aux_walk(f, ps, max_filesize, supported_files, aux_data, io) ==
  IF ps = <<>> THEN [exc |-> "", value |-> aux_data, io |-> io]
  ELSE LET p == Head(ps)
       IN  IF /\ is_file(f, p)
              /\ suffix(p[2]) \in supported_files
              /\ f[p].size < max_filesize * MB
           THEN IF f[p].decode = "fail"
                THEN [exc |-> "LoadError", value |-> aux_data,
                      io |-> Append(io, IoOp("hs.load", p))]
                ELSE load_aux_walk(f, Tail(ps), max_filesize, supported_files,
                       IF f[p].decode = "zerodim" THEN aux_data
                       ELSE DictSet(aux_data, sanitise(p[2]), p),
                       Append(io, IoOp("hs.load", p)))
           ELSE load_aux_walk(f, Tail(ps), max_filesize, supported_files, aux_data, io)

load_aux_data(f, directory, max_filesize, supported_files) ==
  load_aux_walk(f, children(f, directory), max_filesize, supported_files, <<>>, <<>>)

(***************************************************************************)
(* Parameter Resolution                                                    *)
(***************************************************************************)
dict_get(d, k, default) == IF d[k] = Missing THEN default ELSE d[k]

\* int(x)
py_int(x) ==
  IF x.t \in {"int", "float", "str"} THEN [exc |-> "", n |-> x.v[1]]
  ELSE [exc |-> "TypeError", n |-> 0]

\* tuple(x) unless x is None
py_tuple(x) == IF x.t = "none" THEN PyNone ELSE PyTuple(x.v)

resolve_navigation_shape(parameters, navigation_shape) ==
  py_tuple(dict_get(parameters, "navigation_shape", navigation_shape))

\* resolve_lineskip with the sidecar ignored
resolve_lineskip_caller_only(parameters, lineskip) == py_int(lineskip)

resolve_lineskip(parameters, lineskip) ==
  py_int(dict_get(parameters, "lineskip", lineskip))

\* expand_chunks with two navigation dimensions whatever the shape
expand_chunks_two_dims(chunks, navigation_shape) ==
  LET c == IF chunks.t = "none" THEN <<32, 256>> ELSE chunks.v
  IN  PyTuple(<<c[1], c[1], c[2], c[2]>>)

expand_chunks(chunks, navigation_shape) ==
  LET c == IF chunks.t = "none" THEN <<32, 256>> ELSE chunks.v
      nav_dim == IF navigation_shape.t = "none" THEN 2 ELSE Len(navigation_shape.v)
  IN  PyTuple([i \in 1..nav_dim |-> c[1]] \o <<c[2], c[2]>>)

\* load_nav_shape without the inflation
load_nav_shape_as_is(navigation_shape, lineskip) == navigation_shape

load_nav_shape(navigation_shape, lineskip) ==
  IF lineskip > 0 /\ navigation_shape.t # "none"
  THEN PyTuple(<<navigation_shape.v[1] + lineskip, navigation_shape.v[2]>>)
  ELSE navigation_shape

\* the lazy loader, at its boundary.  Given a name with shell wildcards it
\* loads every file the name matches (a list of signals when there are
\* several, an error when there is none); it fails on a missing or
\* undecodable file, and gives the array the forced navigation shape when
\* there is one
hs_load(f, path, nav_shape, chunks) ==
  LET wild == \E i \in 1..Len(path[2]) : path[2][i] \in {"*", "?"}
      files == IF wild
               THEN {p \in DOMAIN f : p[1] = path[1] /\ is_file(f, p) /\ fnmatch(path[2], p[2])}
               ELSE {p \in {path} : is_file(f, p)}
      one == CHOOSE p \in files : TRUE
  IN  IF files = {} \/ \E p \in files : f[p].decode # "ok" \/ suffix(p[2]) = JSON
      THEN [exc |-> "LoadError", axis0 |-> 0, many |-> FALSE]
      ELSE IF Cardinality(files) > 1 THEN [exc |-> "", axis0 |-> 0, many |-> TRUE]
      ELSE [exc |-> "", many |-> FALSE,
            axis0 |-> IF nav_shape.t = "none" THEN f[one].axis ELSE nav_shape.v[1]]

\* s.inav[: s.axes_manager[0].size - lineskip, :]
slice_axis0(axis0, lineskip) == IF lineskip > 0 THEN axis0 - lineskip ELSE axis0

(***************************************************************************)
(* Conversion Orchestrator (the single-file part of mib2zarr)              *)
(***************************************************************************)
\* loaded0 and axis0: the length of the first navigation axis as loaded and
\* as saved
ConvRec(f, path, exc, value, io, navigation_shape, lineskip, loaded0, axis0) ==
  [fs |-> f, path |-> path, exc |-> exc, value |-> value, io |-> io,
   navigation_shape |-> navigation_shape, lineskip |-> lineskip,
   loaded0 |-> loaded0, axis0 |-> axis0]

zarr_path(datapath) == with_name(datapath, stem(datapath[2]) \o ZSPY)

zzarr_path(datapath, zzip) ==
  LET zarr == zarr_path(datapath)
  IN  IF zzip THEN with_stem(zarr, stem(zarr[2]) \o <<"-zip">>)
      ELSE with_stem(zarr, stem(zarr[2]) \o <<"-zstore">>)

\* check_destination without the check of the archive path
check_destination_bare_only(f, datapath, zzip, zstore, overwrite) ==
  IF ~overwrite /\ exists(f, zarr_path(datapath)) THEN "ValueError"
  ELSE IF zzip /\ zstore THEN "ValueError"
  ELSE ""

\* check_destination without the check of the two modes
check_destination_any_modes(f, datapath, zzip, zstore, overwrite) ==
  IF ~overwrite /\ exists(f, zarr_path(datapath)) THEN "ValueError"
  ELSE IF (zzip \/ zstore) /\ ~overwrite /\ exists(f, zzarr_path(datapath, zzip))
       THEN "ValueError"
  ELSE ""

\* the checks made before any work: "" when the conversion may start
check_destination(f, datapath, zzip, zstore, overwrite) ==
  IF ~overwrite /\ exists(f, zarr_path(datapath)) THEN "ValueError"
  ELSE IF zzip /\ zstore THEN "ValueError"
  ELSE IF (zzip \/ zstore) /\ ~overwrite /\ exists(f, zzarr_path(datapath, zzip))
       THEN "ValueError"
  ELSE ""

PreviewBytes == MB \div 10

ArchiveBytes == 40 * MB

\* the preview rasters, written beside the source file
save_previews(f, datapath, vbf, stack_max) ==
  LET png(tag) == with_name(datapath, stem(datapath[2]) \o <<tag, ".", "png">>)
      new == (IF vbf THEN {png("_vbf")} ELSE {}) \cup (IF stack_max THEN {png("_max")} ELSE {})
  IN  [p \in DOMAIN f \cup new |->
         IF p \in new THEN FileEntry(PreviewBytes, "ok", EmptyDict, 0) ELSE f[p]]

preview_io(datapath, vbf, stack_max) ==
  (IF vbf THEN <<IoOp("savefig", with_name(datapath, stem(datapath[2]) \o <<"_vbf", ".", "png">>))>>
   ELSE <<>>)
  \o (IF stack_max
      THEN <<IoOp("savefig", with_name(datapath, stem(datapath[2]) \o <<"_max", ".", "png">>))>>
      ELSE <<>>)

Put(f, path, entry) == [p \in DOMAIN f \cup {path} |-> IF p = path THEN entry ELSE f[p]]

\* lines 416-450: the saver, the archiver and the removal of the bare container
save_output(f, z, datapath, a, io, navigation_shape, lineskip, loaded0, axis0) ==
  LET zarr == zarr_path(datapath)
      zzarr == zzarr_path(datapath, a.zzip)
      stale == a.overwrite /\ exists(f, zzarr)
      f0 == IF stale THEN unlink(f, zzarr) ELSE f
      unl == IF stale THEN <<IoOp("unlink", zzarr)>> ELSE <<>>
      archive == FileEntry(ArchiveBytes, "ok", EmptyDict, 0)
  IN  IF a.zstore
      THEN ConvRec(Put(f0, zzarr, archive), datapath, "", <<zzarr>>,
                   io \o unl \o <<IoOp("save", zzarr)>>, navigation_shape, lineskip, loaded0, axis0)
      ELSE LET f1 == Put(f, zarr, DirEntry(Container))
               io1 == Append(io, IoOp("save", zarr))
           IN  IF a.zzip
               THEN LET f2 == IF stale THEN unlink(f1, zzarr) ELSE f1
                        f3 == IF z THEN Put(f2, zzarr, archive) ELSE f2
                        io3 == io1 \o unl \o <<IoOp("7z", zzarr), IoOp("rmdir", zarr)>>
                    IN  IF rmdir_ok(f3, zarr)
                        THEN ConvRec(unlink(f3, zarr), datapath, "", <<zzarr>>, io3,
                                     navigation_shape, lineskip, loaded0, axis0)
                        ELSE ConvRec(f3, datapath, "OSError", <<>>, io3,
                                     navigation_shape, lineskip, loaded0, axis0)
               ELSE ConvRec(f1, datapath, "", <<zarr>>, io1, navigation_shape, lineskip, loaded0, axis0)

\* lines 346-411: sidecar, resolution, loader, slicing, previews, auxiliary
\* data.  A list of signals has none of the attributes the steps after the
\* loader read, so the first of them raises AttributeError.
convert_body(f, z, datapath, a) ==
  LET md == get_metadata_from_json(f, with_suffix(datapath, JSON))
      navigation_shape == resolve_navigation_shape(md.value, a.navigation_shape)
      ls == resolve_lineskip(md.value, a.lineskip)
      chunks == expand_chunks(a.chunks, navigation_shape)
      nav_shape == load_nav_shape(navigation_shape, ls.n)
      ld == hs_load(f, datapath, nav_shape, chunks)
      io1 == Append(md.io, [op |-> "hs.load", path |-> datapath, nav_shape |-> nav_shape,
                            chunks |-> chunks])
      axis0 == slice_axis0(ld.axis0, ls.n)
      f1 == save_previews(f, datapath, a.vbf, a.stack_max)
      io2 == io1 \o preview_io(datapath, a.vbf, a.stack_max)
      aux == load_aux_data(f1, datapath[1], a.max_aux_size, _SUPPORTED_FILES)
  IN  IF md.exc # "" THEN ConvRec(f, datapath, md.exc, <<>>, md.io, PyNone, 0, 0, 0)
      ELSE IF ls.exc # ""
           THEN ConvRec(f, datapath, ls.exc, <<>>, md.io, navigation_shape, 0, 0, 0)
      ELSE IF ld.exc # ""
           THEN ConvRec(f, datapath, ld.exc, <<>>, io1, navigation_shape, ls.n, 0, 0)
      ELSE IF ld.many
           THEN ConvRec(f, datapath, "AttributeError", <<>>, io1, navigation_shape, ls.n, 0, 0)
      ELSE IF aux.exc # ""
           THEN ConvRec(f1, datapath, aux.exc, <<>>, io2 \o aux.io, navigation_shape, ls.n,
                        ld.axis0, axis0)
      ELSE save_output(f1, z, datapath, a, io2 \o aux.io, navigation_shape, ls.n,
                       ld.axis0, axis0)

convert_file(f, z, datapath, a) ==
  LET chk == check_destination(f, datapath, a.zzip, a.zstore, a.overwrite)
  IN  IF chk # "" THEN ConvRec(f, datapath, chk, <<>>, <<>>, PyNone, 0, 0, 0)
      ELSE convert_body(f, z, datapath, a)

(***************************************************************************)
(* Batch Driver: mib2zarr on a glob pattern, a directory or a file         *)
(***************************************************************************)
Result(f, exc, value, convs) == [fs |-> f, exc |-> exc, value |-> value, convs |-> convs]

RECURSIVE mib2zarr(_, _, _, _)
RECURSIVE glob_loop(_, _, _, _, _)
RECURSIVE dir_loop(_, _, _, _, _)

\* lines 266-284: an exception of a match leaves the loop and the call
glob_loop(f, z, ps, a, acc) ==
  IF ps = <<>> THEN Result(f, "", acc.value, acc.convs)
  ELSE LET p == Head(ps)
       IN  IF is_dir(f, p) \/ suffix(p[2]) = MIB
           THEN LET r == mib2zarr(f, z, p, a)
                IN  IF r.exc # "" THEN Result(r.fs, r.exc, <<>>, acc.convs \o r.convs)
                    ELSE glob_loop(r.fs, z, Tail(ps), a,
                           [value |-> acc.value \o r.value, convs |-> acc.convs \o r.convs])
           ELSE glob_loop(f, z, Tail(ps), a, acc)

\* lines 289-308: an exception of a file is logged and the loop goes on
dir_loop(f, z, ps, a, acc) ==
  IF ps = <<>> THEN Result(f, "", acc.value, acc.convs)
  ELSE LET r == mib2zarr(f, z, Head(ps), a)
       IN  dir_loop(r.fs, z, Tail(ps), a,
             [value |-> IF r.exc = "" THEN acc.value \o r.value ELSE acc.value,
              convs |-> acc.convs \o r.convs])

mib2zarr(f, z, datapath, a) ==
  IF \E i \in 1..Len(stem(datapath[2])) : stem(datapath[2])[i] = "*"
  THEN glob_loop(f, z, glob(f, datapath[1], datapath[2]), a, [value |-> <<>>, convs |-> <<>>])
  ELSE IF is_dir(f, datapath)
  THEN dir_loop(f, z, get_mib_files(f, datapath, a.min_mib_size), a,
                [value |-> <<>>, convs |-> <<>>])
  ELSE LET c == convert_file(f, z, datapath, a)
       IN  Result(c.fs, c.exc, c.value, <<c>>)

Args(navigation_shape, lineskip, chunks, zzip, zstore, overwrite, min_mib_size, max_aux_size, vbf, stack_max) ==
  [navigation_shape |-> navigation_shape, lineskip |-> lineskip, chunks |-> chunks,
   zzip |-> zzip, zstore |-> zstore, overwrite |-> overwrite,
   min_mib_size |-> min_mib_size, max_aux_size |-> max_aux_size, vbf |-> vbf,
   stack_max |-> stack_max]

(***************************************************************************)
(* Calls.  call records the last operation with its arguments, the         *)
(* filesystem it started from and what it returned or raised; prev is the  *)
(* single-file conversion before it.                                       *)
(***************************************************************************)
NoCall == [op |-> "none"]

RunName(i) == <<"run", i>> \o MIB

TxtName == <<"notes", ".", "txt">>

(***************************************************************************)
(* File Discovery on trees of raw files of several sizes, at every depth   *)
(***************************************************************************)
RawSizes == {60 * MB, 100 * MB - 1, 100 * MB, 150 * MB}

Thresholds == {50, 100, 150}

DiscoveryTree(raw, txt) ==
  LET files == {<<d, RunName("1")>> : d \in {e \in 0..MaxDepth : raw[e] # 0}}
               \cup {<<d, TxtName>> : d \in {e \in 0..MaxDepth : txt[e]}}
  IN  [p \in files |->
         IF p[2] = TxtName THEN FileEntry(150 * MB, "fail", EmptyDict, 0)
         ELSE FileEntry(raw[p[1]], "ok", EmptyDict, 6)]
      @@ DirChain(MaxDepth)

InitDiscovery ==
  /\ \E raw \in [0..MaxDepth -> {0} \cup RawSizes], txt \in [0..MaxDepth -> BOOLEAN] :
       fs = DiscoveryTree(raw, txt)
  /\ sevenz = TRUE
  /\ call = NoCall
  /\ prev = NoCall

GetMibFilesCall ==
  /\ \E path \in {DataDir, <<0, <<"sub">>>>, <<0, RunName("1")>>}, T \in Thresholds :
       call' = [op |-> "get_mib_files", path |-> path, minimum_filesize |-> T,
                value |-> get_mib_files(fs, path, T)]
  /\ UNCHANGED <<fs, sevenz, prev>>

NextDiscovery == GetMibFilesCall

SpecDiscovery == InitDiscovery /\ [][NextDiscovery]_vars

\* the directories of the subtree below the directories ds
RECURSIVE SubtreeDirs(_, _)
SubtreeDirs(f, ds) ==
  LET more == ds \cup {f[p].sub : p \in {q \in DOMAIN f : q[1] \in ds /\ f[q].kind = "dir"
                                                          /\ f[q].sub # Container}}
  IN  IF more = ds THEN ds ELSE SubtreeDirs(f, more)

SubtreeFiles(f, path) ==
  {p \in DOMAIN f : f[p].kind = "file" /\ p[1] \in SubtreeDirs(f, {f[path].sub})}

Range(s) == {s[i] : i \in 1..Len(s)}

NoDuplicates(s) == \A i, j \in 1..Len(s) : s[i] = s[j] => i = j

\* C1: get_mib_files(D, T) on a directory D returns exactly the files of D's
\* subtree with suffix .mib and a size in MB >= T, each exactly once
C1_DiscoveryHonoursThreshold ==
  (call.op = "get_mib_files" /\ is_dir(fs, call.path)) =>
    /\ Range(call.value) =
         {p \in SubtreeFiles(fs, call.path) :
            suffix(p[2]) = MIB /\ fs[p].size >= call.minimum_filesize * MB}
    /\ NoDuplicates(call.value)

(***************************************************************************)
(* The two loaders on sidecars and auxiliary directories of every kind     *)
(***************************************************************************)
NavShapes == {<<10, 5>>, <<4, 4>>}

SidecarDicts ==
  [navigation_shape : {Missing, PyNone} \cup {PyList(n) : n \in NavShapes},
   lineskip : {Missing, PyNone, PyFloat(1, 5), PyStr(2)} \cup {PyInt(k) : k \in 0..MaxSkip}]

\* no sidecar, an unparsable one, a directory of that name, or a mapping
SidecarEntries ==
  {DirEntry(Container), FileEntry(1, "fail", EmptyDict, 0)}
  \cup {FileEntry(1, "ok", j, 0) : j \in SidecarDicts}

SidecarPath == <<0, <<"run", "1">> \o JSON>>

RawPath == <<0, RunName("1")>>

AuxEntries ==
  {FileEntry(sz * MB, dec, EmptyDict, 0) : sz \in {2, 5, 6}, dec \in {"ok", "fail", "zerodim"}}

CalibPath == <<0, <<"calib", ".", "png">>>>

ThumbPath == <<0, <<"thumb", " ", "1", ".", "jpg">>>>

DarkPath == <<0, <<"dark", ".", "dm4">>>>

\* pick restricted to the paths of ps it gives an entry (Absent: no entry)
Absent ==
  [kind |-> "absent", size |-> 0, decode |-> "none", json |-> EmptyDict, axis |-> 0,
   sub |-> Container]

Present(ps, pick) == [p \in {q \in ps : pick[q].kind # "absent"} |-> pick[p]]

InitLoaders ==
  /\ \/ \E e \in SidecarEntries \cup {Absent} :
          fs = Present({SidecarPath}, [q \in {SidecarPath} |-> e]) @@ DirChain(0)
     \/ \E pick \in [{CalibPath, ThumbPath, DarkPath, <<0, TxtName>>} ->
                       AuxEntries \cup {Absent}] :
          /\ pick[DarkPath] \in {Absent, FileEntry(2 * MB, "ok", EmptyDict, 0)}
          /\ pick[<<0, TxtName>>] \in {Absent, FileEntry(2 * MB, "fail", EmptyDict, 0)}
          /\ fs = Present(DOMAIN pick, pick)
                  @@ (<<0, <<"stack", ".", "png">>>> :> DirEntry(Container))
                  @@ DirChain(0)
  /\ sevenz = TRUE
  /\ call = NoCall
  /\ prev = NoCall

GetMetadataCall ==
  /\ LET r == get_metadata_from_json(fs, SidecarPath)
     IN  call' = [op |-> "get_metadata_from_json", path |-> SidecarPath,
                  exc |-> r.exc, value |-> r.value]
  /\ UNCHANGED <<fs, sevenz, prev>>

LoadAuxCall ==
  /\ \E max_filesize \in {_MAX_AUX_FILESIZE, 7} :
       LET r == load_aux_data(fs, 0, max_filesize, _SUPPORTED_FILES)
       IN  call' = [op |-> "load_aux_data", path |-> DataDir, max_filesize |-> max_filesize,
                    exc |-> r.exc, value |-> r.value]
  /\ UNCHANGED <<fs, sevenz, prev>>

NextLoaders == GetMetadataCall \/ LoadAuxCall

SpecLoaders == InitLoaders /\ [][NextLoaders]_vars

\* C6: get_metadata_from_json never raises; it returns the parsed mapping
\* of a sidecar that exists and parses, and the empty mapping otherwise
C6_SidecarNeverRaises ==
  call.op = "get_metadata_from_json" =>
    /\ call.exc = ""
    /\ call.value = IF is_file(fs, call.path) /\ fs[call.path].decode = "ok"
                    THEN fs[call.path].json ELSE EmptyDict

\* the files load_aux_data is to load: regular, allowed extension, below the ceiling
AuxEligible(f, d, max_filesize) ==
  {p \in DOMAIN f : /\ p[1] = d
                    /\ f[p].kind = "file"
                    /\ suffix(p[2]) \in _SUPPORTED_FILES
                    /\ f[p].size < max_filesize * MB}

\* C7: a file that fails to load does not abort load_aux_data; every other
\* eligible file that is not zero-dimensional is in the returned mapping
C7_AuxFailureIsolated ==
  call.op = "load_aux_data" =>
    /\ call.exc = ""
    /\ \A p \in AuxEligible(fs, fs[call.path].sub, call.max_filesize) :
         fs[p].decode = "ok" => sanitise(p[2]) \in DOMAIN call.value

(***************************************************************************)
(* Calls of mib2zarr                                                       *)
(***************************************************************************)
ConvView(c) ==
  [path |-> c.path, exc |-> c.exc, value |-> c.value, io |-> c.io,
   navigation_shape |-> c.navigation_shape, lineskip |-> c.lineskip,
   loaded0 |-> c.loaded0, axis0 |-> c.axis0]

CallRec(root, a, before, r) ==
  [op |-> "mib2zarr", path |-> root, args |-> a, before |-> before, exc |-> r.exc,
   value |-> r.value, convs |-> [i \in 1..Len(r.convs) |-> ConvView(r.convs[i])]]

HasOp(io, op) == \E i \in 1..Len(io) : io[i].op = op

\* what is kept of the conversion before the last one
PrevRec(c) ==
  IF c.op # "mib2zarr" THEN NoCall
  ELSE [op |-> "mib2zarr", path |-> c.path, zzip |-> c.args.zzip, zstore |-> c.args.zstore,
        overwrite |-> c.args.overwrite, exc |-> c.exc,
        saved |-> \E i \in 1..Len(c.convs) : HasOp(c.convs[i].io, "save")]

RawEntry(decode, axis) == FileEntry(150 * MB, decode, EmptyDict, axis)

(***************************************************************************)
(* Single-file conversions in every output mode, one after the other, from *)
(* every prior state of the three destination paths                        *)
(***************************************************************************)
ZarrPath == zarr_path(RawPath)

ZipPath == zzarr_path(RawPath, TRUE)

ZstorePath == zzarr_path(RawPath, FALSE)

InitOutput ==
  /\ \E decode \in {"ok", "fail"}, old \in SUBSET {ZarrPath, ZipPath, ZstorePath} :
       fs = [p \in old |-> IF p = ZarrPath THEN DirEntry(Container)
                           ELSE FileEntry(ArchiveBytes, "ok", EmptyDict, 0)]
            @@ (RawPath :> RawEntry(decode, 6))
            @@ DirChain(0)
  /\ sevenz \in BOOLEAN
  /\ call = NoCall
  /\ prev = NoCall

ConvertCall ==
  /\ \E zzip \in BOOLEAN, zstore \in BOOLEAN, overwrite \in BOOLEAN, vbf \in BOOLEAN :
       LET a == Args(PyNone, PyInt(0), PyNone, zzip, zstore, overwrite, _MIN_MIB_FILESIZE,
                     _MAX_AUX_FILESIZE, vbf, FALSE)
           r == mib2zarr(fs, sevenz, RawPath, a)
       IN  /\ fs' = r.fs
           /\ call' = CallRec(RawPath, a, fs, r)
  /\ prev' = PrevRec(call)
  /\ UNCHANGED sevenz

NextOutput == ConvertCall

SpecOutput == InitOutput /\ [][NextOutput]_vars

Forms(f) == {p \in {ZarrPath, ZipPath, ZstorePath} : exists(f, p)}

\* C3: after a single-file conversion in archive or container-zip mode has
\* run (with an archiver that works), exactly one container form of the stem
\* is on disk: the mode's own
C3_OneContainerForm ==
  (/\ call.op = "mib2zarr"
   /\ sevenz
   /\ call.path = RawPath
   /\ call.args.zzip # call.args.zstore
   /\ HasOp(call.convs[1].io, "save")) =>
    Forms(fs) = {IF call.args.zzip THEN ZipPath ELSE ZstorePath}

\* C4: a second conversion of the same file in the same mode, both without
\* overwrite, the first having written its output, fails with the
\* configuration error before any load, save, delete or archiver step and
\* leaves the disk as the first call left it
C4_SecondCallRefused ==
  (/\ call.op = "mib2zarr"
   /\ prev.op = "mib2zarr"
   /\ prev.path = call.path
   /\ prev.zzip = call.args.zzip
   /\ prev.zstore = call.args.zstore
   /\ ~(call.args.zzip /\ call.args.zstore)
   /\ ~prev.overwrite
   /\ ~call.args.overwrite
   /\ prev.saved) =>
    /\ call.exc = "ValueError"
    /\ call.value = <<>>
    /\ call.convs[1].io = <<>>
    /\ fs = call.before

C4_Witness ==
  /\ call.op = "mib2zarr"
  /\ prev.op = "mib2zarr"
  /\ prev.path = call.path
  /\ prev.zstore
  /\ call.args.zstore
  /\ ~prev.zzip
  /\ ~call.args.zzip
  /\ ~prev.overwrite
  /\ ~call.args.overwrite
  /\ prev.saved
  /\ prev.exc = ""
  /\ call.exc = "ValueError"
  /\ Forms(fs) = {ZstorePath}

\* C5: archive mode and container-zip mode requested together for a raw
\* file raise the configuration error before any file I/O, whatever the
\* overwrite flag and the destination paths
C5_BothModesRefused ==
  (/\ call.op = "mib2zarr"
   /\ call.path = RawPath
   /\ call.args.zzip
   /\ call.args.zstore) =>
    /\ call.exc = "ValueError"
    /\ call.value = <<>>
    /\ call.convs[1].io = <<>>
    /\ fs = call.before

C5_Witness ==
  /\ call.op = "mib2zarr"
  /\ call.path = RawPath
  /\ call.args.zzip
  /\ call.args.zstore
  /\ call.args.overwrite
  /\ Forms(call.before) = {ZarrPath, ZipPath, ZstorePath}
  /\ call.exc = "ValueError"

(***************************************************************************)
(* Parameter resolution: conversions of one raw file under every sidecar   *)
(* and every caller-supplied navigation_shape, lineskip and chunks         *)
(***************************************************************************)
InferredSizes == {6, 12}

\* unset, two navigation dimensions (a list or a tuple), or three
CallerShapes == {PyNone, PyList(<<10, 5>>), PyTuple(<<4, 4>>), PyTuple(<<2, 3, 4>>)}

CallerSkips == {PyNone} \cup {PyInt(k) : k \in 0..MaxSkip}

CallerChunks == {PyNone, PyList(<<32, 256>>), PyList(<<16, 64>>)}

InitResolve ==
  /\ \E e \in SidecarEntries \cup {Absent}, axis \in InferredSizes :
       fs = Present({SidecarPath}, [q \in {SidecarPath} |-> e])
            @@ (RawPath :> RawEntry("ok", axis))
            @@ DirChain(0)
  /\ sevenz = TRUE
  /\ call = NoCall
  /\ prev = NoCall

ResolveCall ==
  /\ \E navigation_shape \in CallerShapes, lineskip \in CallerSkips, chunks \in CallerChunks :
       LET a == Args(navigation_shape, lineskip, chunks, FALSE, TRUE, TRUE,
                     _MIN_MIB_FILESIZE, _MAX_AUX_FILESIZE, FALSE, FALSE)
           r == mib2zarr(fs, sevenz, RawPath, a)
       IN  /\ fs' = r.fs
           /\ call' = CallRec(RawPath, a, fs, r)
  /\ UNCHANGED <<sevenz, prev>>

NextResolve == ResolveCall

SpecResolve == InitResolve /\ [][NextResolve]_vars

\* the sidecar mapping J of a raw file: empty when there is no sidecar
SidecarOf(f, datapath) ==
  LET j == with_suffix(datapath, JSON)
  IN  IF is_file(f, j) /\ f[j].decode = "ok" THEN f[j].json ELSE EmptyDict

\* the same Python value, a list and a tuple of the same items being one
SameValue(x, y) == (x.t = "none") = (y.t = "none") /\ x.v = y.v

\* n is the integer x stands for (the integer part of a float, the number a
\* string spells)
IsInteger(x, n) == x.t \in {"int", "float", "str"} /\ x.v[1] = n

LoadOps(c) == {i \in 1..Len(c.io) : c.io[i].op = "hs.load" /\ c.io[i].path = c.path}

\* C8: the navigation_shape and lineskip a conversion uses are the
\* sidecar's where the sidecar has the key and the caller's otherwise, the
\* lineskip as an integer
C8_SidecarOverridesCaller ==
  call.op = "mib2zarr" =>
    \A i \in 1..Len(call.convs) :
      LET c == call.convs[i]
          J == SidecarOf(call.before, c.path)
      IN  LoadOps(c) # {} =>
            /\ SameValue(c.navigation_shape,
                         IF J.navigation_shape # Missing THEN J.navigation_shape
                         ELSE call.args.navigation_shape)
            /\ IsInteger(IF J.lineskip # Missing THEN J.lineskip ELSE call.args.lineskip,
                         c.lineskip)

\* a sidecar that overrides both caller values, its lineskip a float
C8_Witness ==
  /\ call.op = "mib2zarr"
  /\ LoadOps(call.convs[1]) # {}
  /\ SidecarOf(call.before, RawPath) =
       [navigation_shape |-> PyList(<<10, 5>>), lineskip |-> PyFloat(1, 5)]
  /\ call.args.navigation_shape = PyTuple(<<4, 4>>)
  /\ call.args.lineskip = PyInt(2)
  /\ call.convs[1].navigation_shape = PyTuple(<<10, 5>>)
  /\ call.convs[1].lineskip = 1

\* C9: with a resolved navigation_shape (n0, n1) and lineskip k > 0 the
\* loader is given (n0 + k, n1) and the saved array's first navigation axis
\* has length n0; with k = 0 the loader is given navigation_shape as it is
\* and the array is not sliced
C9_LineskipSlicing ==
  call.op = "mib2zarr" =>
    \A i \in 1..Len(call.convs) :
      LET c == call.convs[i]
          n == c.navigation_shape
          k == c.lineskip
      IN  \A l \in LoadOps(c) :
            /\ (k > 0 /\ n.t # "none") =>
                 /\ c.io[l].nav_shape = PyTuple(<<n.v[1] + k, n.v[2]>>)
                 /\ c.exc = "" => c.axis0 = n.v[1]
            /\ k = 0 =>
                 /\ c.io[l].nav_shape = n
                 /\ c.exc = "" => c.axis0 = c.loaded0

C9_Witness ==
  /\ call.op = "mib2zarr"
  /\ call.convs[1].exc = ""
  /\ call.convs[1].navigation_shape = PyTuple(<<10, 5>>)
  /\ call.convs[1].lineskip = 2
  /\ \E l \in LoadOps(call.convs[1]) : call.convs[1].io[l].nav_shape = PyTuple(<<12, 5>>)
  /\ call.convs[1].loaded0 = 12
  /\ call.convs[1].axis0 = 10

\* the caller's chunk pair, (32, 256) when unset
ChunkPair(a) == IF a.chunks.t = "none" THEN <<32, 256>> ELSE a.chunks.v

\* the navigation-dimension count of a resolved navigation_shape, 2 when
\* it is unresolved
NavDim(n) == IF n.t = "none" THEN 2 ELSE Len(n.v)

\* C11: the chunk tuple the loader is given has one entry per navigation
\* dimension, each the first chunk size, then the second chunk size twice,
\* so its length is the navigation-dimension count + 2; for chunks
\* (32, 256) or unset and a navigation_shape of length 2 or unresolved it
\* is (32, 32, 256, 256)
C11_ChunkExpansion ==
  call.op = "mib2zarr" =>
    \A i \in 1..Len(call.convs) :
      LET c == call.convs[i]
          d == NavDim(c.navigation_shape)
          pair == ChunkPair(call.args)
      IN  \A l \in LoadOps(c) :
            LET given == c.io[l].chunks
            IN  /\ given.t = "tuple"
                /\ Len(given.v) = d + 2
                /\ \A j \in 1..d : given.v[j] = pair[1]
                /\ \A j \in (d + 1)..(d + 2) : given.v[j] = pair[2]
                /\ (pair = <<32, 256>> /\ d = 2) => given.v = <<32, 32, 256, 256>>

\* chunks unset and three navigation dimensions: the loader is given
\* (32, 32, 32, 256, 256)
C11_Witness ==
  /\ call.op = "mib2zarr"
  /\ call.args.chunks = PyNone
  /\ call.convs[1].navigation_shape = PyTuple(<<2, 3, 4>>)
  /\ \E l \in LoadOps(call.convs[1]) :
       call.convs[1].io[l].chunks = PyTuple(<<32, 32, 32, 256, 256>>)

(***************************************************************************)
(* The batch driver on a directory, on glob patterns and on a file, over   *)
(* raw files that load and raw files that do not                           *)
(***************************************************************************)
Raw2Path == <<0, RunName("2")>>

SubRawPath == <<1, RunName("1")>>

BatchRoots ==
  {DataDir, RawPath,
   <<Top, <<"*">>>>,
   <<0, <<"*">>>>,
   <<0, <<"*">> \o MIB>>,
   <<0, <<"run", "1", ".", "*">>>>,
   <<0, <<"run", "?">> \o MIB>>}

InitBatch ==
  /\ \E pick \in [{RawPath, Raw2Path, SubRawPath, SidecarPath} ->
                    {Absent, RawEntry("ok", 6), RawEntry("fail", 6),
                     FileEntry(1, "ok", EmptyDict, 0)}] :
       /\ pick[RawPath] \in {RawEntry("ok", 6), RawEntry("fail", 6)}
       /\ pick[Raw2Path] \in {Absent, RawEntry("ok", 6), RawEntry("fail", 6)}
       /\ pick[SubRawPath] \in {Absent, RawEntry("ok", 6)}
       /\ pick[SidecarPath] \in {Absent, FileEntry(1, "ok", EmptyDict, 0)}
       /\ fs = Present(DOMAIN pick, pick)
               @@ (<<0, TxtName>> :> FileEntry(2 * MB, "fail", EmptyDict, 0))
               @@ DirChain(1)
  /\ sevenz = TRUE
  /\ call = NoCall
  /\ prev = NoCall

BatchCall ==
  /\ \E root \in BatchRoots, zstore \in BOOLEAN, overwrite \in BOOLEAN :
       LET a == Args(PyNone, PyInt(0), PyNone, FALSE, zstore, overwrite, _MIN_MIB_FILESIZE,
                     _MAX_AUX_FILESIZE, FALSE, FALSE)
           r == mib2zarr(fs, sevenz, root, a)
       IN  /\ fs' = r.fs
           /\ call' = CallRec(root, a, fs, r)
  /\ UNCHANGED <<sevenz, prev>>

NextBatch == BatchCall

SpecBatch == InitBatch /\ [][NextBatch]_vars

Contains(name, ch) == \E i \in 1..Len(name) : name[i] = ch

RECURSIVE ConcatOk(_)
ConcatOk(convs) ==
  IF convs = <<>> THEN <<>>
  ELSE (IF Head(convs).exc = "" THEN Head(convs).value ELSE <<>>) \o ConcatOk(Tail(convs))

Converted(c) == {c.convs[i].path : i \in 1..Len(c.convs)}

\* the raw files a batch call is to convert: those of the directory, or the
\* .mib matches of the pattern and the raw files of the directories it matches
Discovered(f, root, a) ==
  IF is_dir(f, root) THEN Range(get_mib_files(f, root, a.min_mib_size))
  ELSE LET ms == Range(glob(f, root[1], root[2]))
       IN  {p \in ms : ~is_dir(f, p) /\ suffix(p[2]) = MIB}
           \cup UNION {Range(get_mib_files(f, p, a.min_mib_size)) : p \in {q \in ms : is_dir(f, q)}}

\* C2: on a directory or a glob pattern, a file whose conversion raises is
\* skipped: the call does not raise, every other discovered file is
\* converted, and the result is the outputs of the conversions that succeeded
C2_BatchIsolatesFailures ==
  (/\ call.op = "mib2zarr"
   /\ is_dir(call.before, call.path) \/ Contains(stem(call.path[2]), "*")) =>
    /\ call.exc = ""
    /\ Converted(call) = Discovered(call.before, call.path, call.args)
    /\ call.value = ConcatOk(call.convs)

OutputOf(p, a) == IF a.zzip \/ a.zstore THEN zzarr_path(p, a.zzip) ELSE zarr_path(p)

\* C10: a root whose final segment contains a wildcard is a pattern, not a
\* literal path: every match that is a directory or a .mib file is converted
\* on its own and the call returns their results, one after the other (here
\* with overwrite, over raw files that all load, so that no conversion of a
\* match has a reason to raise)
C10_WildcardIsGlob ==
  (/\ call.op = "mib2zarr"
   /\ Contains(call.path[2], "*") \/ Contains(call.path[2], "?")
   /\ call.args.overwrite
   /\ \A p \in Discovered(call.before, call.path, call.args) : call.before[p].decode = "ok") =>
    /\ call.exc = ""
    /\ Range(call.value) =
         {OutputOf(p, call.args) : p \in Discovered(call.before, call.path, call.args)}
    /\ Len(call.value) = Cardinality(Discovered(call.before, call.path, call.args))

====
